---- MODULE Spec2Model ----
(***************************************************************************)
(* Model of dakara_base.websocket_client.WebSocketClient: the websocket    *)
(* handle, the retry flag, the reconnect timer and the four callbacks the  *)
(* websocket library fires (open, close, message, error), with the Stop    *)
(* Signal and the error queue the client shares with its supervisor.       *)
(*                                                                         *)
(* dakara_base.safe_workers (safe, WorkerSafeTimer, create_timer and the   *)
(* timer thread) is not among the sources; it is modelled from the         *)
(* specification: Safe, create_timer, TimerStart, StartWorker, TimerFire.  *)
(***************************************************************************)
EXTENDS Integers, Sequences, FiniteSets, Bags, TLC

\* websocket_client.py:18
RECONNECT_INTERVAL == 5

\* Bounds of the model.
MaxRuns == 2
MaxEvents == 2

\* Bound of the sustained outage: the number of connection attempts.
OutageRuns == 4

\* The connections, the events received and the frames written by an
\* application that overloads hooks and sends messages.
AppRuns == 1

AppEvents == 1

MaxSends == 1

\* The messages and the limits given to display_message: messages of at most
\* MaxLen characters, limits up to MaxLimit.
MaxLen == 5

MaxLimit == 6

\* Python's None, for the websocket handle.
None == 0

\* The values the configurations of the model give to "reconnect_interval".
ConfigIntervals == {1}

\* The URL of the server in the configurations of the model.
ServerUrl == "ws://www.example.com/ws"

\* The configurations a client can be constructed with: the URL of the server,
\* with or without the key "reconnect_interval".
Configs == {[url |-> ServerUrl]}
           \cup {[url |-> ServerUrl, reconnect_interval |-> v] : v \in ConfigIntervals}

\* The header a client is constructed with: the authentication token.
Headers == {[Authorization |-> "Token"]}

\* dict.get(key, default)
DictGet(dict, key, default) == IF key \in DOMAIN dict THEN dict[key] ELSE default

\* The classes of the errors the websocket library hands to on_error.
ErrorClasses == {"WebSocketBadStatusException", "ConnectionRefusedError",
                 "ConnectionResetError", "WebSocketConnectionClosedException",
                 "Exception"}

\* The hooks an application may overload.
Hooks == {"on_connected", "on_connection_lost"}

\* The event types for which the client has a receive_<type> method.
HandledTypes == {"dummy"}

\* Python's None, for the argument of a handler.
PyNone == "None"

\* The texts received from the server: a text that is not JSON, the JSON text
\* of a value that is not an object, and JSON texts of objects (their members).
Messages == {[json |-> FALSE],
             [json |-> TRUE, object |-> FALSE],
             [json |-> TRUE, object |-> TRUE, members |-> <<>>],
             [json |-> TRUE, object |-> TRUE, members |-> [type |-> "dummy", data |-> "data"]],
             [json |-> TRUE, object |-> TRUE, members |-> [type |-> "dummy"]],
             [json |-> TRUE, object |-> TRUE, members |-> [type |-> "other", data |-> "data"]]}

\* The arguments the websocket library gives to on_close: the code (shown by
\* its decimal text) and the reason, both often None.
CloseArgs == {<<PyNone, PyNone>>, <<"1000", "going away">>}

\* The truth value of a code or reason.
Truthy(v) == v \notin {PyNone, ""}

\* The exception classes of the module, with their bases.
Bases == [NotConnectedError |-> {"DakaraError"},
          AuthenticationError |-> {"DakaraError"},
          ParameterError |-> {"DakaraError", "ValueError"},
          NetworkError |-> {"DakaraError"},
          URLParameterError |-> {"DakaraError", "ValueError"}]

\* isinstance(error, class), for an error of a class of the module.
IsInstance(cls, base) == cls = base \/ (cls \in DOMAIN Bases /\ base \in Bases[cls])

\* No exception left the body of a callback.
NoError == "none"

----------------------------------------------------------------------------
\* utils.display_message. A text is a sequence of characters.

\* message[:stop], for a stop of either sign.
SliceTo(message, stop_) ==
    IF stop_ >= 0
    THEN SubSeq(message, 1, IF stop_ < Len(message) THEN stop_ ELSE Len(message))
    ELSE SubSeq(message, 1, IF Len(message) + stop_ > 0 THEN Len(message) + stop_ ELSE 0)

\* str.strip(): the text without the white space at its ends.
RECURSIVE Strip(_)
Strip(text) ==
    IF text = <<>> THEN text
    ELSE IF Head(text) = " " THEN Strip(Tail(text))
    ELSE IF text[Len(text)] = " " THEN Strip(SubSeq(text, 1, Len(text) - 1))
    ELSE text

Ellipsis == <<".", ".", ".">>

\* display_message(message, limit)
display_message(message, limit) ==
    IF Len(message) <= limit THEN message
    ELSE Strip(SliceTo(message, limit - 3)) \o Ellipsis

----------------------------------------------------------------------------
\* utils.create_url. A text that is taken apart is a sequence of characters.

\* The text of a sequence of characters.
RECURSIVE Str(_)
Str(chars) == IF chars = <<>> THEN "" ELSE Head(chars) \o Str(Tail(chars))

\* str.split(sep): the pieces of the text between the separators.
RECURSIVE Split(_, _)
Split(chars, sep) ==
    IF \A i \in DOMAIN chars : chars[i] # sep THEN <<chars>>
    ELSE LET i == CHOOSE k \in DOMAIN chars :
                      chars[k] = sep /\ \A j \in 1..(k - 1) : chars[j] # sep
         IN <<SubSeq(chars, 1, i - 1)>> \o Split(SubSeq(chars, i + 1, Len(chars)), sep)

Digits == {"0", "1", "2", "3", "4", "5", "6", "7", "8", "9"}

\* furl refuses a host with a colon in it, and a port that is neither None nor
\* the text of a number.
ValidPort(port) ==
    port = <<>> \/ (Len(port) \in 1..5 /\ \A i \in DOMAIN port : port[i] \in Digits)

\* furl(scheme=..., host=..., port=..., path=...).url; no port is <<>>.
Furl(scheme, host, port, path) ==
    scheme \o "://" \o host
    \o (IF port = <<>> THEN "" ELSE ":" \o Str(port))
    \o (IF path = "" THEN "" ELSE "/" \o path)

\* furl(url).add(path=path).url, for a URL that does not end with a slash.
FurlAddPath(url, path) == IF path = "" THEN url ELSE url \o "/" \o path

\* A URL, or the exception that create_url raises.
Returned(value) == [raised |-> NoError, value |-> value]

Raised(class) == [raised |-> class, value |-> ""]

\* create_url(url, address, host, port, path, ssl, scheme_no_ssl, scheme_ssl);
\* address and port are sequences of characters, no port is <<>>.
create_url(url, address, host, port, path, ssl, scheme_no_ssl, scheme_ssl) ==
    IF url # "" THEN Returned(FurlAddPath(url, path))
    ELSE LET parts == Split(address, ":")
             unpacked == host = "" /\ Len(parts) = 2
             host_ == IF host # "" THEN host
                      ELSE IF unpacked THEN Str(parts[1]) ELSE Str(address)
             port_ == IF unpacked THEN parts[2] ELSE port
             scheme == IF ssl THEN scheme_ssl ELSE scheme_no_ssl
         IN IF scheme = "" \/ host_ = "" THEN Raised("URLParameterError")
            ELSE IF host = "" /\ Len(parts) > 2 THEN Raised("URLParameterError")
            ELSE IF ~ValidPort(port_) THEN Raised("URLParameterError")
            ELSE Returned(Furl(scheme, host_, port_, path))

VARIABLES
    config,               \* the configuration given at construction
    server_url,           \* self.server_url
    header,               \* self.header
    stop,                 \* the Stop Signal (threading.Event), owned by the supervisor
    errors,               \* the error queue shared with the supervisor
    log,                  \* the records emitted on the module's logger, as a bag
    websocket,            \* self.websocket: None or the connection object
    retry,                \* self.retry
    reconnect_interval,   \* self.reconnect_interval
    timers,               \* every timer created so far
    timer,                \* self.timer: index in timers
    nconn,                \* number of connection objects created so far
    apps,                 \* the connection objects created so far, as WebSocketApp was
                          \* given them
    phase,                \* the receive loop of the connection object
    sock,                 \* the sock attribute of the connection object
    raising,              \* the hooks an application overloaded with one that raises
    called,               \* number of invocations of each hook and handler
    nevents,              \* number of on_message and on_error callbacks delivered
    refused,              \* number of refused connections reported to on_error, with the
                          \* Stop Signal unset, since the last on_open
    aborted,              \* whether a call of abort has returned
    sent,                 \* the frames written to a connection, in order
    returned,             \* the number of calls of run that have returned
    abort_pc,             \* where a call of abort on another thread stands
    send_pc,              \* the arguments of a call of send on another thread that has
                          \* passed the check of connected, with the connection object
                          \* once the body has read it, <<>> when there is none
    close_pc,             \* where a call of on_close stands while another thread runs
                          \* beside it, "out" when there is none
    error_pc,             \* the error of a call of on_error that has passed its test of
                          \* the Stop Signal, "out" when there is none
    last                  \* the operation that ran last, with the state it found

vars == <<config, server_url, header, stop, errors, log, websocket, retry,
          reconnect_interval, timers, timer, nconn, apps, phase, sock, raising, called,
          nevents, refused, aborted, sent, returned, abort_pc, send_pc, close_pc,
          error_pc, last>>

----------------------------------------------------------------------------
\* Logging

Logged(level, message, args) == SetToBag({<<level, message, args>>})

NoLog == EmptyBag

\* The number of records of this level and message in the log.
Count(l, level, message, args) == CopiesIn(<<level, message, args>>, l)

----------------------------------------------------------------------------
\* safe_workers, from the specification

\* A safe that drops what is raised once the Stop Signal is set.
Safe_UnlessStopped(queue, callback, raised) ==
    IF raised = NoError \/ stop THEN queue
    ELSE Append(queue, [context |-> callback, error |-> raised])

\* safe: an exception that leaves the callback is put on the error queue as one
\* tuple, and the call returns normally.
Safe(queue, callback, raised) ==
    IF raised = NoError THEN queue
    ELSE Append(queue, [context |-> callback, error |-> raised])

\* A wrapper that sets the Stop Signal when it captures an exception.
SafeStop_SetOnError(raised) == stop \/ raised # NoError

\* safe: the Stop Signal after the wrapped call. The wrapper captures the
\* exception and leaves the signal to its owner.
SafeStop(raised) == stop

\* create_timer(interval, function): a timer that is not started yet.
create_timer(interval, function) ==
    [interval |-> interval, function |-> function, state |-> "created"]

\* Timer.start()
TimerStart(t) == [t EXCEPT !.state = "started"]

\* The timers that are started and have not fired.
Alive == {i \in DOMAIN timers : timers[i].state = "started"}

----------------------------------------------------------------------------
\* The record of the operation that ran last.

Op(name, arg, out) == [op |-> name, arg |-> arg, out |-> out, stop |-> stop,
                       retry |-> retry, websocket |-> websocket]

----------------------------------------------------------------------------
\* Construction

\* init_worker: the state of a client after construction.
init_worker(cfg, hdr) ==
    /\ config = cfg
    /\ server_url = create_url(cfg.url, <<>>, "", <<>>, "", FALSE, "ws", "wss").value
    /\ header = hdr
    /\ websocket = None
    /\ retry = FALSE
    /\ reconnect_interval = DictGet(cfg, "reconnect_interval", RECONNECT_INTERVAL)
    /\ timers = <<create_timer(0, "run")>>
    /\ timer = 1

\* A client just constructed, of an application whose overloaded hooks and
\* receive_<type> methods in the set raise.
Constructed(overloaded) ==
    /\ \E cfg \in Configs, hdr \in Headers : init_worker(cfg, hdr)
    /\ stop = FALSE
    /\ errors = <<>>
    /\ log = NoLog
    /\ nconn = 0
    /\ apps = <<>>
    /\ phase = "idle"
    /\ sock = "none"
    /\ raising = overloaded
    /\ called = [h \in Hooks \cup {"receive"} |-> 0]
    /\ nevents = 0
    /\ refused = 0
    /\ aborted = FALSE
    /\ sent = <<>>
    /\ returned = 0
    /\ abort_pc = "out"
    /\ send_pc = <<>>
    /\ close_pc = "out"
    /\ error_pc = "out"
    /\ last = [op |-> "init_worker", arg |-> <<>>, out |-> <<>>, stop |-> FALSE,
               retry |-> FALSE, websocket |-> None]

\* The client of the repository: the hooks are the stubs.
Init == Constructed({})

----------------------------------------------------------------------------
\* The hooks

\* on_connected, on_connection_lost: stubs, unless the application overloaded
\* them; what leaves the call of the hook.
HookRaised(hook) == IF hook \in raising THEN "HookError" ELSE NoError

----------------------------------------------------------------------------
\* The supervisor

\* The owner of the Stop Signal sets it; the client never does.
SetStop ==
    /\ ~stop
    /\ stop' = TRUE
    /\ last' = Op("set_stop", <<>>, <<>>)
    /\ UNCHANGED <<close_pc, send_pc, abort_pc, returned, sent, config, server_url, header, error_pc, errors, log, websocket, retry, reconnect_interval, timers,
                   timer, nconn, apps, phase, sock, raising, called, nevents, refused,
                   aborted>>

\* The supervisor starts the timer that init_worker created.
StartWorker ==
    /\ timers[timer].state = "created"
    /\ timers' = [timers EXCEPT ![timer] = TimerStart(@)]
    /\ last' = Op("start", <<>>, <<>>)
    /\ UNCHANGED <<close_pc, send_pc, abort_pc, returned, sent, config, server_url, header, error_pc, stop, errors, log, websocket, retry, reconnect_interval,
                   timer, nconn, apps, phase, sock, raising, called, nevents, refused,
                   aborted>>

\* abort: the value retry is given.
AbortRetry == FALSE

\* abort, statement by statement: its caller is on another thread than the
\* receive loop and the callbacks run beside it. abort_pc is "out" when no call
\* is under way, and names the statement that comes next otherwise.

\* self.retry = False, of a call of abort or of the call exit_worker makes.
abort_retry ==
    /\ abort_pc \in {"out", "retry"}
    /\ abort_pc' = "test"
    /\ retry' = AbortRetry
    /\ last' = Op("abort_retry", <<>>, <<>>)
    /\ UNCHANGED <<close_pc, send_pc, returned, sent, config, server_url, header, error_pc, stop, errors, log, websocket,
                   reconnect_interval, timers, timer, nconn, apps, phase, sock, raising,
                   called, nevents, refused, aborted>>

\* self.websocket is not None: abort returns when there is no handle.
abort_test ==
    /\ abort_pc = "test"
    /\ abort_pc' = IF websocket # None THEN "hasattr" ELSE "out"
    /\ aborted' = IF websocket # None THEN aborted ELSE TRUE
    /\ last' = Op("abort_test", <<>>, <<>>)
    /\ UNCHANGED <<close_pc, send_pc, returned, sent, config, server_url, header, error_pc, stop, errors, log, websocket, retry,
                   reconnect_interval, timers, timer, nconn, apps, phase, sock, raising,
                   called, nevents, refused>>

\* hasattr(self.websocket.sock, "abort"): the handle is read again, and None
\* has no attribute sock; abort returns when the socket has no abort.
abort_hasattr ==
    /\ abort_pc = "hasattr"
    /\ IF websocket = None
       THEN /\ abort_pc' = "out"
            /\ last' = Op("abort_hasattr", <<>>, <<"raised", "AttributeError">>)
       ELSE /\ abort_pc' = IF sock # "none" THEN "call" ELSE "out"
            /\ last' = Op("abort_hasattr", <<>>, <<>>)
    /\ aborted' = IF abort_pc' = "out" THEN TRUE ELSE aborted
    /\ UNCHANGED <<close_pc, send_pc, returned, sent, config, server_url, header, error_pc, stop, errors, log, websocket, retry,
                   reconnect_interval, timers, timer, nconn, apps, phase, sock, raising,
                   called, nevents, refused>>

\* self.websocket.sock.abort(): the handle and its socket are read once more;
\* None has no attribute sock, and a connection object without a socket has
\* None for sock, which has no abort.
abort_call ==
    /\ abort_pc = "call"
    /\ abort_pc' = "out"
    /\ aborted' = TRUE
    /\ IF websocket = None \/ sock = "none"
       THEN /\ last' = Op("abort_call", <<>>, <<"raised", "AttributeError">>)
            /\ UNCHANGED sock
       ELSE /\ last' = Op("abort_call", <<>>, <<>>)
            /\ sock' = "aborted"
    /\ UNCHANGED <<close_pc, send_pc, returned, sent, config, server_url, header, error_pc, stop, errors, log, websocket, retry,
                   reconnect_interval, timers, timer, nconn, apps, phase, raising,
                   called, nevents, refused>>

\* abort goes on with its next statement.
abort_next ==
    \/ abort_test
    \/ abort_hasattr
    \/ abort_call

\* exit_worker: the worker leaves; one debug record, then the call of abort.
exit_worker ==
    /\ abort_pc = "out"
    /\ abort_pc' = "retry"
    /\ log' = log (+) Logged("DEBUG", "Aborting websocket connection", <<>>)
    /\ last' = Op("exit_worker", <<>>, <<>>)
    /\ UNCHANGED <<close_pc, send_pc, returned, sent, config, server_url, header, error_pc,
                   stop, errors, websocket, retry, reconnect_interval, timers, timer,
                   nconn, apps, phase, sock, raising, called, nevents, refused, aborted>>

----------------------------------------------------------------------------
\* send

\* The data an application hands to send: None when it supplies none, a text,
\* and the empty text, a value that Python takes for false.
SendData == {PyNone, "data", ""}

\* connected: the decorated function is called when self.websocket is set.
IsConnected == websocket # None

\* send: the content, with the data when the data is true in Python's sense.
Content(message_type, data) ==
    IF Truthy(data) THEN [type |-> message_type, data |-> data]
    ELSE [type |-> message_type]

\* json.dumps of a text or of None.
JsonValue(v) == IF v = PyNone THEN "null" ELSE "\"" \o v \o "\""

\* json.dumps of a content.
JsonDumps(content) ==
    "{\"type\": " \o JsonValue(content.type)
    \o (IF "data" \in DOMAIN content THEN ", \"data\": " \o JsonValue(content.data) ELSE "")
    \o "}"

\* str.startswith(prefix)
StartsWith(text, prefix) ==
    Len(text) >= Len(prefix) /\ SubSeq(text, 1, Len(prefix)) = prefix

\* The text without its first n characters.
Drop(text, n) == SubSeq(text, n + 1, Len(text))

\* The position of the first double quote of a text from position i on, 0
\* when there is none.
RECURSIVE QuoteAt(_, _)
QuoteAt(text, i) ==
    IF i > Len(text) THEN 0
    ELSE IF SubSeq(text, i, i) = "\"" THEN i
    ELSE QuoteAt(text, i + 1)

\* json.loads at a value, null or a text without escapes: the value and the
\* rest of the document.
JsonParseValue(text) ==
    IF StartsWith(text, "null")
    THEN [ok |-> TRUE, value |-> PyNone, rest |-> Drop(text, 4)]
    ELSE IF StartsWith(text, "\"") /\ QuoteAt(text, 2) > 0
    THEN [ok |-> TRUE, value |-> SubSeq(text, 2, QuoteAt(text, 2) - 1),
          rest |-> Drop(text, QuoteAt(text, 2))]
    ELSE [ok |-> FALSE, value |-> PyNone, rest |-> ""]

\* json.loads of a frame: an object with a member type and, or not, a member
\* data; any other text is taken as not JSON.
JsonLoads(text) ==
    IF ~StartsWith(text, "{\"type\": ") THEN [json |-> FALSE]
    ELSE LET t == JsonParseValue(Drop(text, 9))
         IN  IF ~t.ok THEN [json |-> FALSE]
             ELSE IF t.rest = "}"
             THEN [json |-> TRUE, object |-> TRUE, members |-> [type |-> t.value]]
             ELSE IF ~StartsWith(t.rest, ", \"data\": ") THEN [json |-> FALSE]
             ELSE LET d == JsonParseValue(Drop(t.rest, 10))
                  IN  IF d.ok /\ d.rest = "}"
                      THEN [json |-> TRUE, object |-> TRUE,
                            members |-> [type |-> t.value, data |-> d.value]]
                      ELSE [json |-> FALSE]

\* WebSocketApp.send of a connection object: the frame is written when the
\* object is the one whose receive loop runs and has a socket in use; an object
\* without a socket, with a socket that was aborted, or whose connection has
\* terminated raises WebSocketConnectionClosedException.
SocketWrites(object) == object = nconn /\ sock = "live"

\* send(message_type, data) on a thread of the application, statement by
\* statement beside the callbacks of the receive loop: send_pc is <<>> when no
\* call is under way, the arguments of the call once it is past the check of
\* connected, and the arguments with the connection object once the body has
\* read self.websocket. send is not a callback: what it raises reaches its
\* caller.

\* connected: the check of self.websocket, and NotConnectedError when it is
\* None.
send_connected(message_type, data) ==
    /\ send_pc = <<>>
    /\ IF IsConnected
       THEN /\ send_pc' = <<message_type, data>>
            /\ last' = Op("send_connected", <<message_type, data>>, <<>>)
       ELSE /\ send_pc' = <<>>
            /\ last' = Op("send", <<message_type, data>>,
                          <<"raised", "NotConnectedError">>)
    /\ UNCHANGED <<close_pc, abort_pc, returned, sent, config, server_url, header, error_pc, stop, errors, log, websocket, retry,
                   reconnect_interval, timers, timer, nconn, apps, phase, sock, raising,
                   called, nevents, refused, aborted>>

\* The body of send: self.websocket is read again for self.websocket.send; on
\* None the attribute send does not exist and Python raises AttributeError.
send_read ==
    /\ Len(send_pc) = 2
    /\ IF websocket = None
       THEN /\ send_pc' = <<>>
            /\ last' = Op("send", send_pc, <<"raised", "AttributeError">>)
       ELSE /\ send_pc' = Append(send_pc, websocket)
            /\ last' = Op("send_read", send_pc, <<>>)
    /\ UNCHANGED <<close_pc, abort_pc, returned, sent, config, server_url, header, error_pc, stop, errors, log, websocket, retry,
                   reconnect_interval, timers, timer, nconn, apps, phase, sock, raising,
                   called, nevents, refused, aborted>>

\* The body of send: the call of send of the connection object that was read,
\* whatever self.websocket has become since.
send_write ==
    /\ Len(send_pc) = 3
    /\ send_pc' = <<>>
    /\ IF ~SocketWrites(send_pc[3])
       THEN /\ last' = Op("send", SubSeq(send_pc, 1, 2),
                          <<"raised", "WebSocketConnectionClosedException">>)
            /\ UNCHANGED sent
       ELSE /\ last' = Op("send", SubSeq(send_pc, 1, 2), <<"returned", phase>>)
            /\ sent' = Append(sent, JsonDumps(Content(send_pc[1], send_pc[2])))
    /\ UNCHANGED <<close_pc, abort_pc, returned, config, server_url, header, error_pc, stop, errors, log, websocket, retry,
                   reconnect_interval, timers, timer, nconn, apps, phase, sock, raising,
                   called, nevents, refused, aborted>>

----------------------------------------------------------------------------
\* run, and the timer that calls it

\* lambda ws, ...: self.method(...): a callback given to WebSocketApp, as the
\* method of the client it calls and, of the arguments the library calls it
\* with, those it hands over; the connection object ws is handed to none.
Lambda(method, args) == [method |-> method, args |-> args]

\* WebSocketApp(url, header=..., on_open=..., on_close=..., on_message=...,
\* on_error=...): the connection object keeps what it is given.
WebSocketApp(url, hdr, on_open_, on_close_, on_message_, on_error_) ==
    [url |-> url, header |-> hdr, on_open |-> on_open_, on_close |-> on_close_,
     on_message |-> on_message_, on_error |-> on_error_]

\* The library calls the callback the latest connection object holds for the
\* event, and the callback calls this method of the client.
Calls(event, method) == nconn > 0 /\ apps[nconn][event].method = method

\* A run that hands the messages to on_error and the errors to on_message.
run_Rerouted ==
    /\ log' = log (+) Logged("DEBUG", "Preparing websocket connection", <<>>)
    /\ nconn' = nconn + 1
    /\ websocket' = nconn + 1
    /\ apps' = Append(apps, WebSocketApp(server_url, header,
                                         Lambda("on_open", <<>>),
                                         Lambda("on_close", <<"code", "reason">>),
                                         Lambda("on_error", <<"message">>),
                                         Lambda("on_message", <<"error">>)))
    /\ phase' = "connecting"
    /\ sock' = "none"

\* run: a fresh connection object, made for server_url and header with the
\* four callbacks, is stored in self.websocket, then run_forever blocks until
\* the connection terminates.
run ==
    /\ log' = log (+) Logged("DEBUG", "Preparing websocket connection", <<>>)
    /\ nconn' = nconn + 1
    /\ websocket' = nconn + 1
    /\ apps' = Append(apps, WebSocketApp(server_url, header,
                                         Lambda("on_open", <<>>),
                                         Lambda("on_close", <<"code", "reason">>),
                                         Lambda("on_message", <<"message">>),
                                         Lambda("on_error", <<"error">>)))
    /\ phase' = "connecting"
    /\ sock' = "none"

\* A timer that calls its function whatever the Stop Signal.
FireCalls_Always == TRUE

\* Whether a timer that fires calls its function: the Stop Signal is checked
\* when the timer fires.
FireCalls == ~stop

\* A started timer fires.
TimerFire(i) ==
    /\ i \in Alive
    /\ timers' = [timers EXCEPT ![i].state = "fired"]
    /\ IF FireCalls
       THEN run
       ELSE UNCHANGED <<log, nconn, apps, websocket, phase, sock>>
    /\ last' = Op("fire", <<i>>, <<>>)
    /\ UNCHANGED <<close_pc, send_pc, abort_pc, returned, sent, config, server_url, header, error_pc, stop, errors, retry, reconnect_interval, timer, raising,
                   called, nevents, refused, aborted>>

\* run_forever creates the socket of the connection object.
Connect ==
    /\ phase = "connecting"
    /\ sock = "none"
    /\ sock' = "live"
    /\ last' = Op("connect", <<>>, <<>>)
    /\ UNCHANGED <<close_pc, send_pc, abort_pc, returned, sent, config, server_url, header, error_pc, stop, errors, log, websocket, retry, reconnect_interval,
                   timers, timer, nconn, apps, phase, raising, called, nevents, refused,
                   aborted>>

\* The calls of run that have not returned: one may be inside run_forever with
\* its connection, the others are past their on_close.
RunLoops == nconn - returned

\* run_forever returns once on_close has returned, and run returns with it, on
\* the thread of the timer that called it.
RunReturns ==
    /\ returned < nconn - (IF phase = "idle" /\ close_pc = "out" THEN 0 ELSE 1)
    /\ returned' = returned + 1
    /\ last' = Op("run_returns", <<>>, <<>>)
    /\ UNCHANGED <<close_pc, send_pc, abort_pc, sent, config, server_url, header, error_pc, stop, errors, log, websocket, retry,
                   reconnect_interval, timers, timer, nconn, apps, phase, sock, raising,
                   called, nevents, refused, aborted>>

----------------------------------------------------------------------------
\* The callbacks. The websocket library calls them from run_forever, one at a
\* time: on_open once the handshake completed, on_message while the connection
\* is open, on_error at any moment, on_close when the connection terminates.

\* An on_open that leaves retry as it finds it.
OpenRetry_Kept == retry

\* on_open: the value retry is given.
OpenRetry == FALSE

\* on_open
on_open ==
    /\ Calls("on_open", "on_open")
    /\ error_pc = "out"
    /\ phase = "connecting"
    /\ sock = "live"
    /\ phase' = "open"
    /\ log' = log (+) Logged("INFO", "Websocket connected to server", <<>>)
    /\ retry' = OpenRetry
    /\ called' = [called EXCEPT !["on_connected"] = @ + 1]
    /\ errors' = Safe(errors, "on_open", HookRaised("on_connected"))
    /\ refused' = 0
    /\ last' = Op("on_open", <<>>, <<>>)
    /\ stop' = SafeStop(HookRaised("on_connected"))
    /\ UNCHANGED <<close_pc, send_pc, abort_pc, returned, sent, config, server_url, header, error_pc, websocket, reconnect_interval, timers, timer, nconn, apps,
                   sock, raising, nevents, aborted>>

\* on_close: the debug record of the code and the reason.
CloseDebug(code, reason) ==
    IF Truthy(code) \/ Truthy(reason)
    THEN Logged("DEBUG", "Code %i: %s", <<code, reason>>)
    ELSE NoLog

\* An on_close that reports every loss at error level.
CloseLost_Always == Logged("ERROR", "Websocket connection lost", <<>>)

\* on_close: the record of a connection lost, on the first loss of a cycle.
CloseLost == IF ~retry THEN Logged("ERROR", "Websocket connection lost", <<>>) ELSE NoLog

\* An on_close that never looks at the Stop Signal.
CloseReturnsEarly_Never == FALSE

\* on_close: whether the method returns after destroying the websocket object.
CloseReturnsEarly == stop

\* An on_close that leaves the retry flag as it found it.
RetryAfterLoss_Kept == retry

\* on_close: the retry flag once the connection is considered lost.
RetryAfterLoss == TRUE

\* A reconnection timer that ignores the configured interval.
ReconnectTimer_Default == create_timer(RECONNECT_INTERVAL, "run")

\* on_close: the timer of the reconnection.
ReconnectTimer == create_timer(reconnect_interval, "run")

\* A reconnection whose timer is created and never started.
ScheduleReconnect_NotStarted == Append(timers, ReconnectTimer)

\* A reconnection scheduled twice.
ScheduleReconnect_Twice ==
    Append(Append(timers, TimerStart(ReconnectTimer)), TimerStart(ReconnectTimer))

\* on_close: the timers once the reconnection is scheduled; the new timer is
\* started.
ScheduleReconnect == Append(timers, TimerStart(ReconnectTimer))

\* on_close on the thread of the receive loop, statement by statement beside
\* the calls of another thread: close_pc is "out" when no such call is under
\* way. The statements are those of on_close, in their order.

\* on_close: the debug record, then self.websocket = None.
on_close_null(code, reason) ==
    /\ Calls("on_close", "on_close")
    /\ close_pc = "out"
    /\ error_pc = "out"
    /\ phase # "idle"
    /\ close_pc' = "stop"
    /\ phase' = "idle"
    /\ sock' = "none"
    /\ websocket' = None
    /\ log' = log (+) CloseDebug(code, reason)
    /\ last' = Op("on_close_null", <<code, reason>>, <<>>)
    /\ UNCHANGED <<send_pc, abort_pc, returned, sent, config, server_url, header, error_pc, stop, errors, retry,
                   reconnect_interval, timers, timer, nconn, apps, raising, called, nevents,
                   refused, aborted>>

\* on_close: the test of the Stop Signal, and the return when it is set.
on_close_stop ==
    /\ close_pc = "stop"
    /\ IF CloseReturnsEarly
       THEN /\ close_pc' = "out"
            /\ log' = log (+) Logged("INFO", "Websocket disconnected from server", <<>>)
       ELSE /\ close_pc' = "lost"
            /\ UNCHANGED log
    /\ last' = Op("on_close_stop", <<>>, <<>>)
    /\ UNCHANGED <<send_pc, abort_pc, returned, sent, config, server_url, header, error_pc, stop, errors, websocket,
                   retry, reconnect_interval, timers, timer, nconn, apps, phase, sock, raising,
                   called, nevents, refused, aborted>>

\* on_close: the test of self.retry and the error record.
on_close_lost ==
    /\ close_pc = "lost"
    /\ close_pc' = "retry"
    /\ log' = log (+) CloseLost
    /\ last' = Op("on_close_lost", <<>>, <<>>)
    /\ UNCHANGED <<send_pc, abort_pc, returned, sent, config, server_url, header, error_pc, stop, errors, websocket,
                   retry, reconnect_interval, timers, timer, nconn, apps, phase, sock, raising,
                   called, nevents, refused, aborted>>

\* on_close: self.retry = True.
on_close_retry ==
    /\ close_pc = "retry"
    /\ close_pc' = "hook"
    /\ retry' = RetryAfterLoss
    /\ last' = Op("on_close_retry", <<>>, <<>>)
    /\ UNCHANGED <<send_pc, abort_pc, returned, sent, config, server_url, header, error_pc, stop, errors, log, websocket,
                   reconnect_interval, timers, timer, nconn, apps, phase, sock, raising,
                   called, nevents, refused, aborted>>

\* on_close: the call of self.on_connection_lost(); what it raises ends
\* on_close.
on_close_hook ==
    /\ close_pc = "hook"
    /\ close_pc' = IF HookRaised("on_connection_lost") = NoError THEN "timer" ELSE "out"
    /\ called' = [called EXCEPT !["on_connection_lost"] = @ + 1]
    /\ errors' = Safe(errors, "on_close", HookRaised("on_connection_lost"))
    /\ stop' = SafeStop(HookRaised("on_connection_lost"))
    /\ last' = Op("on_close_hook", <<>>, <<>>)
    /\ UNCHANGED <<send_pc, abort_pc, returned, sent, config, server_url, header, error_pc, log, websocket, retry,
                   reconnect_interval, timers, timer, nconn, apps, phase, sock, raising,
                   nevents, refused, aborted>>

\* on_close: the warning record, then the timer is created and started.
on_close_timer ==
    /\ close_pc = "timer"
    /\ close_pc' = "out"
    /\ log' = log (+) Logged("WARNING", "Trying to reconnect in %i s",
                              <<reconnect_interval>>)
    /\ timers' = ScheduleReconnect
    /\ timer' = Len(timers')
    /\ last' = Op("on_close_timer", <<>>, <<>>)
    /\ UNCHANGED <<send_pc, abort_pc, returned, sent, config, server_url, header, error_pc, stop, errors, websocket,
                   retry, reconnect_interval, nconn, apps, phase, sock, raising, called,
                   nevents, refused, aborted>>

\* on_close goes on with its next statement.
on_close_next ==
    \/ on_close_stop
    \/ on_close_lost
    \/ on_close_retry
    \/ on_close_hook
    \/ on_close_timer

\* on_message: the exception that leaves the body.
MessageRaised(message) ==
    IF ~message.json THEN NoError
    ELSE IF ~message.object THEN "TypeError"
    ELSE IF "type" \notin DOMAIN message.members THEN "KeyError"
    ELSE IF message.members.type \in HandledTypes THEN HookRaised("receive")
    ELSE NoError

\* on_message: whether a receive_<type> method is called.
MessageHandled(message) ==
    /\ message.json
    /\ message.object
    /\ "type" \in DOMAIN message.members
    /\ message.members.type \in HandledTypes

\* on_message: the name of the method an event is handed to.
MethodName(message) == "receive_" \o message.members.type

\* A call that hands over the type of the event in place of its data.
HandlerArgument_Type(message) == message.members.type

\* on_message: the argument of the receive_<type> method, event.get("data").
HandlerArgument(message) == DictGet(message.members, "data", PyNone)

\* on_message: the record logged.
MessageLog(message) ==
    IF ~message.json
    THEN Logged("ERROR", "Unexpected message from the server: '%s'", <<"not JSON">>)
    ELSE IF ~message.object \/ "type" \notin DOMAIN message.members
    THEN NoLog
    ELSE IF ~MessageHandled(message)
    THEN Logged("ERROR", "Event of unknown type received '%s'", <<message.members.type>>)
    ELSE NoLog

\* on_message(message)
on_message(message) ==
    /\ Calls("on_message", "on_message")
    /\ error_pc = "out"
    /\ phase = "open"
    /\ sock = "live"
    /\ nevents' = nevents + 1
    /\ log' = log (+) MessageLog(message)
    /\ errors' = Safe(errors, "on_message", MessageRaised(message))
    /\ IF MessageHandled(message)
       THEN /\ called' = [called EXCEPT !["receive"] = @ + 1]
            /\ last' = Op("on_message", message,
                          <<MethodName(message), HandlerArgument(message)>>)
       ELSE /\ UNCHANGED called
            /\ last' = Op("on_message", message, <<>>)
    /\ stop' = SafeStop(MessageRaised(message))
    /\ UNCHANGED <<close_pc, send_pc, abort_pc, returned, sent, config, server_url, header, error_pc, websocket, retry, reconnect_interval, timers, timer,
                   nconn, apps, phase, sock, raising, refused, aborted>>

\* An on_error that never looks at the Stop Signal.
ErrorReturnsEarly_Never == FALSE

\* on_error: whether the method returns before it analyzes the error.
ErrorReturnsEarly == stop

\* An on_error that escalates every refused connection.
ErrorRaised_RefusedAlways(error) ==
    IF error = "WebSocketBadStatusException" THEN "AuthenticationError"
    ELSE IF error = "ConnectionRefusedError" THEN "NetworkError"
    ELSE IF error = "ConnectionResetError" THEN "ParameterError"
    ELSE NoError

\* An on_error that escalates a bad status on the first failure of a cycle only.
ErrorRaised_AuthOnce(error) ==
    IF error = "WebSocketBadStatusException"
    THEN (IF retry THEN NoError ELSE "AuthenticationError")
    ELSE IF error = "ConnectionRefusedError"
         THEN (IF retry THEN NoError ELSE "NetworkError")
    ELSE IF error = "ConnectionResetError" THEN "ParameterError"
    ELSE NoError

\* An on_error that takes a connection reset for an unreachable server.
ErrorRaised_ResetAsNetwork(error) ==
    IF error = "WebSocketBadStatusException" THEN "AuthenticationError"
    ELSE IF error \in {"ConnectionRefusedError", "ConnectionResetError"}
         THEN (IF retry THEN NoError ELSE "NetworkError")
    ELSE NoError

\* on_error, once past the test of the Stop Signal: the exception that leaves
\* the body; self.retry is read for a refused connection.
ErrorRaised(error) ==
    IF error = "WebSocketBadStatusException" THEN "AuthenticationError"
    ELSE IF error = "ConnectionRefusedError"
         THEN (IF retry THEN NoError ELSE "NetworkError")
    ELSE IF error = "ConnectionResetError" THEN "ParameterError"
    ELSE NoError

\* An on_error that logs the connection closed by the server like any
\* unlisted error.
ErrorLog_ClosedLogged(error) ==
    IF error = "ConnectionRefusedError" /\ retry
    THEN Logged("WARNING", "Unable to talk to the server", <<>>)
    ELSE IF error \in {"Exception", "WebSocketConnectionClosedException"}
         THEN Logged("ERROR", "Websocket: %s", <<error>>)
    ELSE NoLog

\* on_error, once past the test of the Stop Signal: the record logged.
ErrorLog(error) ==
    IF error = "ConnectionRefusedError" /\ retry
    THEN Logged("WARNING", "Unable to talk to the server", <<>>)
    ELSE IF error = "Exception" THEN Logged("ERROR", "Websocket: %s", <<error>>)
    ELSE NoLog

\* on_error on the thread of the receive loop, statement by statement beside
\* the supervisor and the caller of abort: error_pc is "out" when no call is
\* under way, and the error of the call once the Stop Signal was tested.

\* on_error(error): the test of the Stop Signal, and the return when it is set.
on_error_stop(error) ==
    /\ Calls("on_error", "on_error")
    /\ error_pc = "out"
    /\ close_pc = "out"
    /\ IF ErrorReturnsEarly
       THEN /\ error_pc' = "out"
            /\ nevents' = nevents + 1
       ELSE /\ error_pc' = error
            /\ UNCHANGED nevents
    /\ last' = Op("on_error_stop", error, <<>>)
    /\ UNCHANGED <<close_pc, send_pc, abort_pc, returned, sent, config, server_url, header,
                   stop, errors, log, websocket, retry, reconnect_interval, timers, timer,
                   nconn, apps, phase, sock, raising, called, refused, aborted>>

\* on_error: the error is analyzed, self.retry is read for a refused
\* connection, and the method logs, raises or returns.
on_error_class ==
    /\ error_pc # "out"
    /\ error_pc' = "out"
    /\ nevents' = nevents + 1
    /\ log' = log (+) ErrorLog(error_pc)
    /\ errors' = Safe(errors, "on_error", ErrorRaised(error_pc))
    /\ refused' = IF error_pc = "ConnectionRefusedError" THEN refused + 1 ELSE refused
    /\ last' = Op("on_error_class", error_pc, <<>>)
    /\ stop' = SafeStop(ErrorRaised(error_pc))
    /\ UNCHANGED <<close_pc, send_pc, abort_pc, returned, sent, config, server_url, header,
                   websocket, retry, reconnect_interval, timers, timer, nconn, apps,
                   phase, sock, raising, called, aborted>>

----------------------------------------------------------------------------
\* The client with its supervisor, the caller of abort and the websocket
\* library, each on its thread: at most MaxRuns connection objects, at most
\* MaxEvents messages and errors; abort is called once, and the library gives
\* on_close neither code nor reason.
Next ==
    \/ SetStop
    \/ StartWorker
    \/ ~aborted /\ abort_retry
    \/ abort_next
    \/ \E i \in DOMAIN timers : (stop \/ nconn < MaxRuns) /\ TimerFire(i)
    \/ Connect
    \/ on_open
    \/ on_close_null(PyNone, PyNone)
    \/ on_close_next
    \/ \E message \in Messages : nevents < MaxEvents /\ on_message(message)
    \/ \E error \in ErrorClasses :
          phase # "idle" /\ nevents < MaxEvents /\ on_error_stop(error)
    \/ on_error_class

Spec == Init /\ [][Next]_vars

\* A sustained outage: every connection attempt ends with a refused connection
\* reported to on_error, followed by on_close; no on_open, the Stop Signal is
\* never set. At most OutageRuns attempts.
NextOutage ==
    \/ StartWorker
    \/ \E i \in DOMAIN timers : nconn < OutageRuns /\ TimerFire(i)
    \/ Connect
    \/ nevents < nconn /\ on_error_stop("ConnectionRefusedError")
    \/ on_error_class
    \/ \E args \in CloseArgs : nevents = nconn /\ on_close_null(args[1], args[2])
    \/ on_close_next

SpecOutage == Init /\ [][NextOutage]_vars

\* The errors a server that turns the client away reports to on_error.
Rejections == {"WebSocketBadStatusException", "ConnectionResetError"}

\* A server that rejects every connection attempt: each attempt ends with a
\* bad status or a connection reset reported to on_error, followed by
\* on_close; no on_open, the Stop Signal is never set. At most OutageRuns
\* attempts.
NextRejected ==
    \/ StartWorker
    \/ \E i \in DOMAIN timers : nconn < OutageRuns /\ TimerFire(i)
    \/ Connect
    \/ \E error \in Rejections : nevents < nconn /\ on_error_stop(error)
    \/ on_error_class
    \/ \E args \in CloseArgs : nevents = nconn /\ on_close_null(args[1], args[2])
    \/ on_close_next

SpecRejected == Init /\ [][NextRejected]_vars

\* The applications: none, or one, of the hooks and of the receive_<type>
\* methods is overloaded with a method that raises.
Overloads == {{}} \cup {{h} : h \in Hooks \cup {"receive"}}

\* An application that overloads hooks and methods and receives events while
\* the supervisor may set the Stop Signal; abort is called at most once, by the
\* application or by exit_worker, and the library gives on_close neither code
\* nor reason. At most AppRuns connections and AppEvents events received.
NextApp ==
    \/ SetStop
    \/ StartWorker
    \/ (abort_pc = "retry" \/ ~aborted) /\ abort_retry
    \/ abort_next
    \/ ~aborted /\ exit_worker
    \/ \E i \in DOMAIN timers : (stop \/ nconn < AppRuns) /\ TimerFire(i)
    \/ Connect
    \/ on_open
    \/ on_close_null(PyNone, PyNone)
    \/ on_close_next
    \/ \E message \in Messages : nevents < AppEvents /\ on_message(message)
    \/ \E error \in ErrorClasses :
          phase # "idle" /\ nevents < AppEvents /\ on_error_stop(error)
    \/ on_error_class

SpecApp == (\E overloaded \in Overloads : Constructed(overloaded)) /\ [][NextApp]_vars

\* Every operation of the client, for an application whose receive_<type>
\* method raises: the callbacks, send, abort and exit_worker, with the
\* supervisor beside them. At most AppRuns connections, AppEvents events
\* received and MaxSends frames written; abort is called at most once.
NextOps ==
    \/ SetStop
    \/ StartWorker
    \/ (abort_pc = "retry" \/ ~aborted) /\ abort_retry
    \/ abort_next
    \/ ~aborted /\ exit_worker
    \/ \E i \in DOMAIN timers : (stop \/ nconn < AppRuns) /\ TimerFire(i)
    \/ Connect
    \/ on_open
    \/ on_close_null(PyNone, PyNone)
    \/ on_close_next
    \/ \E message \in Messages : nevents < AppEvents /\ on_message(message)
    \/ \E error \in ErrorClasses :
          phase # "idle" /\ nevents < AppEvents /\ on_error_stop(error)
    \/ on_error_class
    \/ Len(sent) < MaxSends /\ send_connected("dummy", "data")
    \/ send_read
    \/ send_write

SpecOps == Constructed({"receive"}) /\ [][NextOps]_vars

\* A deliberate shutdown of a connected client: after at most MaxRuns
\* connections, lost and made again, the supervisor sets the Stop Signal while
\* the connection is open, then abort is called, by the application or by
\* exit_worker; once abort has returned the library reports the aborted socket
\* to on_error as a WebSocketConnectionClosedException and the end of the
\* connection to on_close, in one order or the other. The Stop Signal is set
\* before on_error is called, so that on_error returns at its test.
NextShutdown ==
    \/ StartWorker
    \/ \E i \in DOMAIN timers : ~stop /\ nconn < MaxRuns /\ TimerFire(i)
    \/ Connect
    \/ on_open
    \/ \E args \in CloseArgs : ~stop /\ on_close_null(args[1], args[2])
    \/ on_close_next
    \/ phase = "open" /\ SetStop
    \/ stop /\ ~aborted /\ abort_retry
    \/ abort_next
    \/ stop /\ ~aborted /\ exit_worker
    \/ aborted /\ nevents = 0 /\ on_error_stop("WebSocketConnectionClosedException")
    \/ \E args \in CloseArgs : aborted /\ on_close_null(args[1], args[2])

SpecShutdown == Init /\ [][NextShutdown]_vars

\* abort on another thread than the receive loop: its statements interleave
\* with the firing of timers, with run and with the callbacks, as far as
\* connections come and go: no messages, no errors. At most MaxRuns connection
\* objects.
NextAbortRace ==
    \/ SetStop
    \/ StartWorker
    \/ \E i \in DOMAIN timers : (stop \/ nconn < MaxRuns) /\ TimerFire(i)
    \/ Connect
    \/ on_open
    \/ \E args \in CloseArgs : on_close_null(args[1], args[2])
    \/ on_close_next
    \/ abort_retry
    \/ abort_test
    \/ abort_hasattr
    \/ abort_call

SpecAbortRace == Init /\ [][NextAbortRace]_vars

\* The library reports the end of a connection whose socket was aborted.
CloseAborted == \E args \in CloseArgs : sock = "aborted" /\ on_close_null(args[1], args[2])

\* What the threads guarantee: a started timer fires once its interval has
\* elapsed, run_forever goes on with the connection it is making, the end of an
\* aborted socket is reported to on_close, and a call of on_close or of abort
\* that is under way goes on. Neither the supervisor, nor a call of abort, nor
\* the loss of a connection in use is bound to happen.
Fairness ==
    /\ WF_vars(\E i \in DOMAIN timers : (stop \/ nconn < MaxRuns) /\ TimerFire(i))
    /\ WF_vars(Connect)
    /\ WF_vars(on_open)
    /\ WF_vars(CloseAborted)
    /\ WF_vars(on_close_next)
    /\ WF_vars(abort_next)

SpecLive == Init /\ [][NextAbortRace]_vars /\ Fairness

\* The threads of the client: connections come and go, and the call of run
\* that a timer made returns on the thread of that timer, at some moment after
\* its on_close. At most OutageRuns connection objects.
NextThreads ==
    \/ SetStop
    \/ StartWorker
    \/ abort_retry
    \/ abort_next
    \/ \E i \in DOMAIN timers : (stop \/ nconn < OutageRuns) /\ TimerFire(i)
    \/ Connect
    \/ on_open
    \/ \E args \in CloseArgs : on_close_null(args[1], args[2])
    \/ on_close_next
    \/ RunReturns

SpecThreads == Init /\ [][NextThreads]_vars

\* The calls of run and the callbacks of their connections, with the caller
\* of abort and the supervisor beside them: each connection receives at most
\* one event, a message of a handled type or an error of no known class, and
\* its call of run returns on the thread of its timer. At most MaxRuns
\* connection objects.
NextRun ==
    \/ SetStop
    \/ StartWorker
    \/ \E i \in DOMAIN timers : (stop \/ nconn < MaxRuns) /\ TimerFire(i)
    \/ Connect
    \/ on_open
    \/ \E args \in CloseArgs : on_close_null(args[1], args[2])
    \/ on_close_next
    \/ abort_retry
    \/ abort_next
    \/ nevents < nconn
          /\ on_message([json |-> TRUE, object |-> TRUE,
                         members |-> [type |-> "dummy", data |-> "data"]])
    \/ phase # "idle" /\ nevents < nconn /\ on_error_stop("Exception")
    \/ on_error_class
    \/ RunReturns

SpecRun == Init /\ [][NextRun]_vars

\* send on a thread of the application while the receive loop runs on the
\* thread of the timers: the callbacks come between the steps of send. At most
\* MaxRuns connection objects, MaxSends frames written and MaxEvents messages
\* received.
NextSendRace ==
    \/ StartWorker
    \/ \E i \in DOMAIN timers : nconn < MaxRuns /\ TimerFire(i)
    \/ Connect
    \/ on_open
    \/ \E args \in CloseArgs : on_close_null(args[1], args[2])
    \/ on_close_next
    \/ \E message \in Messages : nevents < MaxEvents /\ on_message(message)
    \/ \E data \in SendData : Len(sent) < MaxSends /\ send_connected("dummy", data)
    \/ send_read
    \/ send_write

SpecSendRace == Init /\ [][NextSendRace]_vars

----------------------------------------------------------------------------
\* Construction, as far as the URL of the server goes.

\* The values of the keys of a configuration; Missing is a key left out.
Missing == "missing"

UrlValues == {Missing, "ws://www.example.com"}

\* An address is a sequence of characters; the key left out is <<>>, which is
\* the default "" of the parameter.
AddressValues == {<<>>,
                  <<"h", "o", "s", "t">>,
                  <<"h", "o", "s", "t", ":", "8", "0", "8", "0">>}

HostValues == {Missing, "localhost"}

SslValues == {Missing, "False", "True"}

Routes == {"", "ws", "api"}

\* The configurations: every choice of keys and of values.
UrlConfigs == [url : UrlValues, address : AddressValues, host : HostValues,
               ssl : SslValues]

\* The argument create_url gets for a key of the configuration: the value of
\* the key, or the default of the parameter.
Argument(value, default) == IF value = Missing THEN default ELSE value

\* init_worker: create_url(**config, path=route, scheme_no_ssl="ws",
\* scheme_ssl="wss").
ServerUrlOf(cfg, route) ==
    create_url(Argument(cfg.url, ""), cfg.address, Argument(cfg.host, ""), <<>>, route,
               Argument(cfg.ssl, "False") = "True", "ws", "wss")

\* WebSocketClient(stop, errors, cfg, route) is about to be called.
InitUrl ==
    /\ config \in UrlConfigs
    /\ \E route \in Routes :
          last = [op |-> "WebSocketClient", arg |-> <<route>>, out |-> <<>>,
                  stop |-> FALSE, retry |-> FALSE, websocket |-> None]
    /\ phase = "new"
    /\ server_url = ""
    /\ header \in Headers
    /\ websocket = None
    /\ retry = FALSE
    /\ reconnect_interval = RECONNECT_INTERVAL
    /\ timers = <<>>
    /\ timer = 0
    /\ stop = FALSE
    /\ errors = <<>>
    /\ log = NoLog
    /\ nconn = 0
    /\ apps = <<>>
    /\ sock = "none"
    /\ raising = {}
    /\ called = [h \in Hooks \cup {"receive"} |-> 0]
    /\ nevents = 0
    /\ refused = 0
    /\ aborted = FALSE
    /\ sent = <<>>
    /\ returned = 0
    /\ abort_pc = "out"
    /\ send_pc = <<>>
    /\ close_pc = "out"
    /\ error_pc = "out"

\* The constructor calls init_worker: the URL is created first, and what
\* create_url raises leaves the constructor; then the attributes and the timer.
Construct ==
    /\ phase = "new"
    /\ LET route == last.arg[1]
           made == ServerUrlOf(config, route)
       IN IF made.raised # NoError
          THEN /\ phase' = "failed"
               /\ last' = Op("init_worker", <<route>>, <<"raised", made.raised>>)
               /\ UNCHANGED <<server_url, timers, timer>>
          ELSE /\ phase' = "idle"
               /\ server_url' = made.value
               /\ last' = Op("init_worker", <<route>>, <<"returned", made.value>>)
               /\ timers' = <<create_timer(0, "run")>>
               /\ timer' = 1
    /\ UNCHANGED <<close_pc, send_pc, abort_pc, returned, sent, config, header, error_pc,
                   stop, errors, log, websocket, retry, reconnect_interval, nconn, apps,
                   sock, raising, called, nevents, refused, aborted>>

SpecUrl == InitUrl /\ [][Construct]_vars

----------------------------------------------------------------------------
\* display_message on its own.

\* The characters of the messages: a letter and a space.
Characters == {"a", " "}

\* The messages of at most MaxLen characters.
Texts == UNION {[1..n -> Characters] : n \in 0..MaxLen}

\* display_message(message, limit) is about to be called.
InitDisplay ==
    /\ \E message \in Texts, limit \in 0..MaxLimit :
          last = [op |-> "call", arg |-> <<message, limit>>, out |-> <<>>,
                  stop |-> FALSE, retry |-> FALSE, websocket |-> None]
    /\ \E cfg \in Configs, hdr \in Headers : init_worker(cfg, hdr)
    /\ phase = "idle"
    /\ stop = FALSE
    /\ errors = <<>>
    /\ log = NoLog
    /\ nconn = 0
    /\ apps = <<>>
    /\ sock = "none"
    /\ raising = {}
    /\ called = [h \in Hooks \cup {"receive"} |-> 0]
    /\ nevents = 0
    /\ refused = 0
    /\ aborted = FALSE
    /\ sent = <<>>
    /\ returned = 0
    /\ abort_pc = "out"
    /\ send_pc = <<>>
    /\ close_pc = "out"
    /\ error_pc = "out"

\* The call returns.
Display ==
    /\ last.op = "call"
    /\ last' = Op("display_message", last.arg, display_message(last.arg[1], last.arg[2]))
    /\ UNCHANGED <<close_pc, send_pc, abort_pc, returned, sent, config, server_url, header, error_pc, stop, errors, log, websocket, retry,
                   reconnect_interval, timers, timer, nconn, apps, phase, sock, raising,
                   called, nevents, refused, aborted>>

SpecDisplay == InitDisplay /\ [][Display]_vars

----------------------------------------------------------------------------
\* handle_all_exceptions

\* The classes of what the body of the with statement raises: the interrupt
\* of Ctrl+C, DakaraError and classes derived from it, and others.
ExitClasses == {"KeyboardInterrupt", "DakaraError", "NotConnectedError",
                "ParameterError", "Exception", "ValueError", "SystemExit"}

\* What leaves the body: nothing, or an exception with its message.
BodyOutcomes ==
    {[class |-> NoError, message |-> ""]}
    \cup {[class |-> c, message |-> m] : c \in ExitClasses, m \in {"", "error"}}

BugtrackerUrls == {"url", "https://www.example.com/bugtracker"}

\* An exit value that takes every exception but the interrupt for a known one.
ExitValueOf_AllKnown(raised) ==
    IF raised.class = NoError THEN 0
    ELSE IF IsInstance(raised.class, "KeyboardInterrupt") THEN 255
    ELSE 1

\* handle_all_exceptions: container.value when the context manager is left;
\* the except clauses are tried in their order.
ExitValueOf(raised) ==
    IF raised.class = NoError THEN 0
    ELSE IF IsInstance(raised.class, "KeyboardInterrupt") THEN 255
    ELSE IF IsInstance(raised.class, "DakaraError") THEN 1
    ELSE 2

\* handle_all_exceptions: the class of the exception that leaves the context
\* manager, NoError when none does.
Reraised(raised, debug) ==
    IF raised.class = NoError THEN NoError
    ELSE IF IsInstance(raised.class, "KeyboardInterrupt") THEN NoError
    ELSE IF debug THEN raised.class
    ELSE NoError

\* handle_all_exceptions: the records logged.
ExitLog(raised, bugtracker_url, debug) ==
    IF raised.class = NoError THEN NoLog
    ELSE IF IsInstance(raised.class, "KeyboardInterrupt")
    THEN Logged("INFO", "Quit by user", <<>>)
    ELSE IF debug THEN NoLog
    ELSE IF IsInstance(raised.class, "DakaraError")
    THEN Logged("CRITICAL", raised.message, <<>>)
    ELSE Logged("ERROR", "Unexpected error: {}", <<raised.message>>)
         (+) Logged("CRITICAL", "Please fill a bug report at '{}'", <<bugtracker_url>>)

\* The with statement is about to be entered: handle_all_exceptions has its
\* arguments and the body its outcome.
InitExit ==
    /\ \E bugtracker_url \in BugtrackerUrls, debug \in BOOLEAN, raised \in BodyOutcomes :
          last = [op |-> "with", arg |-> <<bugtracker_url, debug, raised>>, out |-> <<>>,
                  stop |-> FALSE, retry |-> FALSE, websocket |-> None]
    /\ \E cfg \in Configs, hdr \in Headers : init_worker(cfg, hdr)
    /\ phase = "idle"
    /\ stop = FALSE
    /\ errors = <<>>
    /\ log = NoLog
    /\ nconn = 0
    /\ apps = <<>>
    /\ sock = "none"
    /\ raising = {}
    /\ called = [h \in Hooks \cup {"receive"} |-> 0]
    /\ nevents = 0
    /\ refused = 0
    /\ aborted = FALSE
    /\ sent = <<>>
    /\ returned = 0
    /\ abort_pc = "out"
    /\ send_pc = <<>>
    /\ close_pc = "out"
    /\ error_pc = "out"

\* The body runs and the with statement is left: the exit value and the
\* class of the exception that propagates, NoError when none does.
handle_all_exceptions ==
    /\ last.op = "with"
    /\ log' = log (+) ExitLog(last.arg[3], last.arg[1], last.arg[2])
    /\ last' = Op("handle_all_exceptions", last.arg,
                  <<ExitValueOf(last.arg[3]), Reraised(last.arg[3], last.arg[2])>>)
    /\ UNCHANGED <<close_pc, send_pc, abort_pc, returned, sent, config, server_url, header, error_pc, stop, errors, websocket, retry,
                   reconnect_interval, timers, timer, nconn, apps, phase, sock, raising,
                   called, nevents, refused, aborted>>

SpecExit == InitExit /\ [][handle_all_exceptions]_vars

----------------------------------------------------------------------------
\* The interval a client is configured with.
ConfiguredInterval ==
    IF "reconnect_interval" \in DOMAIN config THEN config["reconnect_interval"] ELSE 5

\* The statements of on_close follow one another: from the test of the Stop
\* Signal on_close returns or goes on, and each later statement runs once.
CloseOrder == {<<"out", "stop">>, <<"stop", "out">>, <<"stop", "lost">>,
               <<"lost", "retry">>, <<"retry", "hook">>, <<"hook", "timer">>,
               <<"hook", "out">>, <<"timer", "out">>}

\* C1: whenever on_close runs while the Stop Signal is not set, it creates
\* exactly one timer with delay reconnect_interval (the configured value, 5
\* when not configured) and target run, starts it, sets retry to true and
\* invokes the on_connection_lost hook exactly once.
C1_CloseSchedulesReconnect ==
    [][/\ close_pc' # close_pc => <<close_pc, close_pc'>> \in CloseOrder
       /\ (last'.op = "on_close_stop" /\ ~stop) => close_pc' = "lost"
       /\ last'.op = "on_close_retry" => retry'
       /\ last'.op = "on_close_hook" =>
             /\ called'["on_connection_lost"] = called["on_connection_lost"] + 1
             /\ close_pc' = "timer"
       /\ last'.op = "on_close_timer" =>
             /\ Len(timers') = Len(timers) + 1
             /\ \A i \in DOMAIN timers : timers'[i] = timers[i]
             /\ timers'[Len(timers')] = [interval |-> ConfiguredInterval,
                                         function |-> "run", state |-> "started"]
             /\ timer' = Len(timers')
       /\ called'["on_connection_lost"] # called["on_connection_lost"] =>
             last'.op = "on_close_hook"
       /\ Len(timers') # Len(timers) => last'.op = "on_close_timer"]_vars

\* An on_close found the Stop Signal unset and went to its end, for a client
\* configured with an interval.
C1_Witness ==
    /\ last.op = "on_close_timer"
    /\ ~last.stop
    /\ close_pc = "out"
    /\ "reconnect_interval" \in DOMAIN config
    /\ timers[timer].interval = 1
    /\ timers[timer].state = "started"
    /\ called["on_connection_lost"] = 1
    /\ retry

\* C2: whenever on_close runs while the Stop Signal is set, it sets the
\* websocket handle to null and does nothing else: no timer is created or
\* started, the on_connection_lost hook is not invoked, and retry keeps the
\* value it had before the call.
C2_CloseOnStop ==
    [][/\ last'.op = "on_close_null" =>
             /\ websocket' = None
             /\ timers' = timers
             /\ timer' = timer
             /\ called' = called
             /\ errors' = errors
             /\ retry' = retry
       /\ (last'.op = "on_close_stop" /\ stop) =>
             /\ close_pc' = "out"
             /\ websocket' = None
             /\ timers' = timers
             /\ timer' = timer
             /\ called' = called
             /\ errors' = errors
             /\ retry' = retry]_vars

\* An on_close found the Stop Signal set and retry true, and returned.
C2_Witness ==
    /\ last.op = "on_close_stop"
    /\ last.stop
    /\ last.retry
    /\ close_pc = "out"
    /\ websocket = None
    /\ retry


\* C3 as stated: the websocket handle is non-null if and only if on_open has
\* fired for the current connection instance and neither on_close nor abort
\* has been observed since.
C3_HandleIffOpen ==
    (websocket # None) <=> (phase = "open" /\ sock = "live")

\* C4: when the Stop Signal is set and abort is called while a reconnect timer
\* scheduled by on_close is pending, the firing of the timer does not start a
\* new connection: no step taken with the Stop Signal set creates a connection
\* object, and the firing leaves the handle and the receive loop as they are.
C4_NoConnectionAfterStop ==
    [][/\ stop => nconn' = nconn
       /\ (last'.op = "fire" /\ stop) =>
             (websocket' = websocket /\ phase' = phase /\ sock' = sock)]_vars

\* The reconnect timer of the last on_close fired with the Stop Signal set,
\* after abort cleared the retry flag that this on_close had set.
C4_Witness ==
    /\ last.op = "fire"
    /\ last.arg = <<timer>>
    /\ timer > 1
    /\ last.stop
    /\ aborted
    /\ ~retry
    /\ websocket = None

\* C5, as claimed: after the Stop Signal is set, none of the on_connected hook,
\* the on_connection_lost hook or a receive_<type> handler is ever invoked.
C5_NoCallbackAfterStop ==
    [][stop => called' = called]_vars

\* C5, amended: no on_close that reaches its test of the Stop Signal after the
\* signal is set invokes the on_connection_lost hook, and it still destroys the
\* websocket object; an on_close that had passed its test goes on to the hook;
\* on_open and on_message do not look at the Stop Signal, so that on_connected
\* and the receive_<type> handlers are still invoked after it is set.
C5_NoLossHookAfterStop ==
    [][/\ (stop /\ close_pc \in {"out", "stop"}) =>
             /\ close_pc' \in {"out", "stop"}
             /\ called'["on_connection_lost"] = called["on_connection_lost"]
       /\ last'.op = "on_close_null" => websocket' = None]_vars

\* An on_close ran with the Stop Signal set, on a connection that had been
\* opened and had received an event for a handler.
C5_Witness ==
    /\ last.op = "on_close_stop"
    /\ last.stop
    /\ close_pc = "out"
    /\ websocket = None
    /\ called["on_connected"] > 0
    /\ called["receive"] > 0
    /\ called["on_connection_lost"] = 0

\* C6: at every moment at most one timer of the client is alive (started and
\* not yet fired).
C6_AtMostOneTimerAlive ==
    Cardinality(Alive) <= 1

\* The timer of a second reconnection is alive, the earlier ones have fired.
C6_Witness ==
    /\ Len(timers) = 3
    /\ Alive = {3}
    /\ timers[1].state = "fired"
    /\ timers[2].state = "fired"


\* What on_error puts on the error queue for an exception of this class.
Escalated(class) == [context |-> "on_error", error |-> class]

\* C7, as claimed: when on_error(ConnectionRefusedError) has found the Stop
\* Signal unset, the first one of a retry cycle puts a NetworkError on the
\* error queue, and a further one with no on_open in between puts nothing on
\* the queue and only logs a warning.
C7_FirstRefusedEscalates ==
    [][(last'.op = "on_error_class" /\ last'.arg = "ConnectionRefusedError") =>
          IF refused = 0
          THEN errors' = Append(errors, Escalated("NetworkError"))
          ELSE /\ errors' = errors
               /\ log' = log (+) Logged("WARNING", "Unable to talk to the server", <<>>)]_vars

\* C7, amended: an on_error(ConnectionRefusedError) that finds the Stop Signal
\* unset at its test goes on to read retry, and puts a NetworkError on the
\* error queue exactly when retry is false at the moment it reads it; when
\* retry is true at that moment it puts nothing on the queue and only logs a
\* warning. on_error leaves retry as it is: a refused connection is suppressed
\* only after a non-stop on_close, with neither on_open nor abort since.
C7_RefusedEscalatesUnlessRetry ==
    [][/\ (last'.op = "on_error_stop" /\ last'.arg = "ConnectionRefusedError" /\ ~stop) =>
             /\ error_pc' = "ConnectionRefusedError"
             /\ retry' = retry
             /\ errors' = errors
             /\ log' = log
       /\ (last'.op = "on_error_class" /\ last'.arg = "ConnectionRefusedError") =>
             /\ retry' = retry
             /\ IF ~retry
                THEN errors' = Append(errors, Escalated("NetworkError")) /\ log' = log
                ELSE /\ errors' = errors
                     /\ log' = log (+) Logged("WARNING", "Unable to talk to the server",
                                              <<>>)]_vars

\* A refused connection was escalated, on_close ran, and the refused
\* connection of the next attempt, read with retry true, was only logged.
C7_Witness ==
    /\ last.op = "on_error_class"
    /\ last.arg = "ConnectionRefusedError"
    /\ ~last.stop
    /\ last.retry
    /\ refused = 2
    /\ errors = <<Escalated("NetworkError")>>
    /\ Count(log, "WARNING", "Unable to talk to the server", <<>>) = 1

\* C8: in a sustained outage exactly one NetworkError is put on the error queue
\* in total, every later attempt only logs a warning, and each attempt
\* schedules exactly one reconnect timer.
C8_OutageEscalatesOnce ==
    /\ Len(errors) = (IF nevents > 0 THEN 1 ELSE 0)
    /\ \A i \in DOMAIN errors : errors[i] = Escalated("NetworkError")
    /\ Count(log, "WARNING", "Unable to talk to the server", <<>>)
          = (IF nevents > 0 THEN nevents - 1 ELSE 0)
    /\ Len(timers) - 1 = (IF phase = "idle" /\ close_pc = "out" THEN nconn ELSE nconn - 1)
    /\ \A i \in 2..Len(timers) :
          timers[i].interval = reconnect_interval /\ timers[i].function = "run"

\* Three attempts have ended: one escalation, two warnings, three reconnect
\* timers.
C8_Witness ==
    /\ nconn = 3
    /\ nevents = 3
    /\ phase = "idle"
    /\ Len(errors) = 1
    /\ Count(log, "WARNING", "Unable to talk to the server", <<>>) = 2
    /\ Len(timers) = 4
    /\ Alive = {4}

\* C9: an on_error(WebSocketBadStatusException) that finds the Stop Signal
\* unset at its test puts an AuthenticationError on the error queue whatever
\* the value of retry.
C9_BadStatusEscalates ==
    [][/\ (last'.op = "on_error_stop" /\ last'.arg = "WebSocketBadStatusException"
             /\ ~stop) => error_pc' = "WebSocketBadStatusException"
       /\ (last'.op = "on_error_class" /\ last'.arg = "WebSocketBadStatusException") =>
             /\ errors' = Append(errors, Escalated("AuthenticationError"))
             /\ log' = log]_vars

\* A bad status was escalated while retry was true.
C9_Witness ==
    /\ last.op = "on_error_class"
    /\ last.arg = "WebSocketBadStatusException"
    /\ ~last.stop
    /\ last.retry
    /\ errors # <<>>
    /\ errors[Len(errors)] = Escalated("AuthenticationError")

\* C10: an on_error(ConnectionResetError) that finds the Stop Signal unset at
\* its test puts a ParameterError, a ValueError, on the error queue whatever
\* the value of retry.
C10_ResetEscalates ==
    [][/\ (last'.op = "on_error_stop" /\ last'.arg = "ConnectionResetError" /\ ~stop) =>
             error_pc' = "ConnectionResetError"
       /\ (last'.op = "on_error_class" /\ last'.arg = "ConnectionResetError") =>
             /\ errors' = Append(errors, Escalated("ParameterError"))
             /\ IsInstance(errors'[Len(errors')].error, "ValueError")
             /\ log' = log]_vars

\* A connection reset was escalated while retry was true.
C10_Witness ==
    /\ last.op = "on_error_class"
    /\ last.arg = "ConnectionResetError"
    /\ ~last.stop
    /\ last.retry
    /\ errors # <<>>
    /\ errors[Len(errors)].error = "ParameterError"
    /\ IsInstance(errors[Len(errors)].error, "ValueError")


\* C11, as claimed: when the Stop Signal is set, on_error puts nothing on the
\* error queue and logs nothing, for every class of error.
C11_ErrorSwallowedOnStop ==
    [][(last'.op \in {"on_error_stop", "on_error_class"} /\ stop) =>
          (errors' = errors /\ log' = log)]_vars

\* C11, amended: an on_error that finds the Stop Signal set at its test, the
\* first statement of the method, returns at once: it puts nothing on the
\* error queue and logs nothing, for every class of error, and the test comes
\* before every classification. An on_error that found the signal unset goes
\* on to classify the error, also when the signal is set in between.
C11_ErrorSwallowedWhenStopAtTest ==
    [][/\ last'.op = "on_error_stop" =>
             /\ errors' = errors
             /\ log' = log
             /\ error_pc' = (IF stop THEN "out" ELSE last'.arg)
       /\ last'.op = "on_error_class" =>
             (error_pc = last'.arg /\ last.op # "on_error_class")
       /\ (errors' # errors /\ errors'[Len(errors')].context = "on_error") =>
             last'.op = "on_error_class"]_vars

\* on_error received a bad status with the Stop Signal set and retry false,
\* and returned at its test.
C11_Witness ==
    /\ last.op = "on_error_stop"
    /\ last.arg = "WebSocketBadStatusException"
    /\ last.stop
    /\ ~last.retry
    /\ error_pc = "out"
    /\ errors = <<>>

\* C12: an on_error that finds the Stop Signal unset at its test, with an
\* error that is none of bad status, connection refused or connection reset,
\* puts nothing on the error queue: a WebSocketConnectionClosedException logs
\* nothing, any other error is logged once at error severity.
C12_UnclassifiedOnlyLogged ==
    [][/\ (/\ last'.op = "on_error_stop"
           /\ ~stop
           /\ last'.arg \notin {"WebSocketBadStatusException", "ConnectionRefusedError",
                                "ConnectionResetError"}) =>
             (error_pc' = last'.arg /\ errors' = errors /\ log' = log)
       /\ (/\ last'.op = "on_error_class"
           /\ last'.arg \notin {"WebSocketBadStatusException", "ConnectionRefusedError",
                                "ConnectionResetError"}) =>
             /\ errors' = errors
             /\ IF last'.arg = "WebSocketConnectionClosedException"
                THEN log' = log
                ELSE log' = log (+) Logged("ERROR", "Websocket: %s", <<last'.arg>>)]_vars

\* Both a WebSocketConnectionClosedException and an unlisted error went through
\* on_error with the Stop Signal unset: one record, nothing on the queue.
C12_Witness ==
    /\ last.op = "on_error_class"
    /\ last.arg = "WebSocketConnectionClosedException"
    /\ ~last.stop
    /\ nevents = 2
    /\ Count(log, "ERROR", "Websocket: %s", <<"Exception">>) = 1
    /\ errors = <<>>


\* The entries of the error queue holding an error of the class.
Surfaced(class) == {i \in DOMAIN errors : errors[i].error = class}

\* C13 as stated: over a run in which the server rejects every connection
\* attempt and the Stop Signal is never set, at most one AuthenticationError
\* and at most one ParameterError are put on the error queue.
C13_NonTransientSurfacesOnce ==
    /\ Cardinality(Surfaced("AuthenticationError")) <= 1
    /\ Cardinality(Surfaced("ParameterError")) <= 1

\* C13: over a run in which the server rejects every connection attempt and
\* the Stop Signal is never set, every rejected attempt puts one error on the
\* error queue: an AuthenticationError for a bad status, a ParameterError for
\* a reset; the queue holds as many errors as attempts were rejected.
C13_NonTransientSurfacesEveryAttempt ==
    /\ Len(errors) = nevents
    /\ \A i \in DOMAIN errors :
          /\ errors[i].context = "on_error"
          /\ errors[i].error \in {"AuthenticationError", "ParameterError"}
    /\ (last.op = "on_error_class" /\ last.arg = "WebSocketBadStatusException") =>
          errors[Len(errors)].error = "AuthenticationError"
    /\ (last.op = "on_error_class" /\ last.arg = "ConnectionResetError") =>
          errors[Len(errors)].error = "ParameterError"

\* Two attempts in a row were rejected with a bad status and the queue holds
\* two AuthenticationErrors.
C13_Witness ==
    /\ nconn = 2
    /\ ~stop
    /\ last.op = "on_error_class"
    /\ last.arg = "WebSocketBadStatusException"
    /\ Cardinality(Surfaced("AuthenticationError")) = 2


\* The payload is a JSON object with a type field.
WellFormed(message) ==
    /\ message.json
    /\ message.object
    /\ "type" \in DOMAIN message.members

\* C15: for every inbound payload that is a JSON envelope whose type has a
\* registered receive_<type> method, on_message calls that method once with
\* the value of the data field (None when the envelope has none), calls no
\* other method, and puts nothing on the error queue when the method returns.
C15_EventDispatched ==
    [][(/\ last'.op = "on_message"
        /\ WellFormed(last'.arg)
        /\ last'.arg.members.type \in HandledTypes) =>
          /\ called'["receive"] = called["receive"] + 1
          /\ last'.out[1] = "receive_" \o last'.arg.members.type
          /\ last'.out[2] = (IF "data" \in DOMAIN last'.arg.members
                             THEN last'.arg.members.data ELSE PyNone)
          /\ Len(last'.out) = 2
          /\ errors' = errors
          /\ log' = log]_vars

\* receive_dummy was called once with the data of an envelope, and once with
\* None for an envelope without data.
C15_Witness ==
    /\ last.op = "on_message"
    /\ last.out = <<"receive_dummy", "data">>
    /\ called["receive"] = 2
    /\ errors = <<>>

\* C16 as stated: for every inbound payload that is not a well-formed event
\* envelope or whose type has no registered method, on_message logs one record
\* and drops the payload: no method is called and nothing is put on the error
\* queue.
C16_MalformedDropped ==
    [][(/\ last'.op = "on_message"
        /\ ~(WellFormed(last'.arg) /\ last'.arg.members.type \in HandledTypes)) =>
          /\ called' = called
          /\ errors' = errors
          /\ BagCardinality(log') = BagCardinality(log) + 1]_vars


\* The state of the client that abort can touch or depend on.
ClientState == <<websocket, retry, sock, phase, timers, timer, errors, log, stop>>

\* The statements of abort.
AbortOps == {"abort_retry", "abort_test", "abort_hasattr", "abort_call"}

\* C20 as stated: abort is idempotent: from any state, a call raises nothing
\* and leaves the error queue, the handle and the timers as they were, and
\* retry is false when it returns; a second call in a row does the same.
C20_AbortIdempotent ==
    [][last'.op \in AbortOps =>
          /\ last'.out = <<>>
          /\ errors' = errors
          /\ websocket' = websocket
          /\ timers' = timers
          /\ abort_pc' = "out" => ~retry']_vars


\* Whether the body of the callback that is about to run with this argument
\* raises: an overloaded hook or method that raises, an envelope without the
\* expected shape, or an error on_error escalates once past its test of the
\* Stop Signal.
BodyRaises(callback, arg) ==
    CASE callback = "on_open" -> "on_connected" \in raising
      [] callback = "on_close_hook" -> "on_connection_lost" \in raising
      [] callback = "on_message" ->
            /\ arg.json
            /\ \/ ~WellFormed(arg)
               \/ arg.members.type \in HandledTypes /\ "receive" \in raising
      [] callback = "on_error_class" ->
            \/ arg \in {"WebSocketBadStatusException", "ConnectionResetError"}
            \/ arg = "ConnectionRefusedError" /\ ~retry

\* The callback a statement belongs to.
CallbackOf(op) ==
    CASE op = "on_close_hook" -> "on_close"
      [] op = "on_error_class" -> "on_error"
      [] OTHER -> op

\* C14: every exception raised inside on_open, on_close, on_message or
\* on_error, an exception of a hook or of a receive_<type> method included, is
\* put on the error queue as exactly one tuple naming the callback, and the
\* callback returns to its caller; a callback that raises nothing leaves the
\* queue alone. The Stop Signal makes no difference, except that an on_error
\* that finds it set at its test returns and raises nothing.
C14_CallbackErrorsCaptured ==
    [][/\ last'.op \in {"on_open", "on_close_hook", "on_message", "on_error_class"} =>
             /\ ~(Len(last'.out) > 0 /\ last'.out[1] = "raised")
             /\ IF BodyRaises(last'.op, last'.arg)
                THEN /\ Len(errors') = Len(errors) + 1
                     /\ SubSeq(errors', 1, Len(errors)) = errors
                     /\ errors'[Len(errors')].context = CallbackOf(last'.op)
                     /\ close_pc' = "out"
                     /\ error_pc' = "out"
                ELSE errors' = errors
       /\ last'.op = "on_error_stop" =>
             /\ last'.out = <<>>
             /\ errors' = errors
             /\ stop => error_pc' = "out"
       /\ last'.op \in {"on_close_null", "on_close_stop", "on_close_lost",
                        "on_close_retry", "on_close_timer"} => errors' = errors]_vars

\* A receive_<type> method raised while the Stop Signal was set, and the error
\* queue holds its exception.
C14_Witness ==
    /\ last.op = "on_message"
    /\ last.stop
    /\ "receive" \in raising
    /\ errors = <<[context |-> "on_message", error |-> "HookError"]>>

\* C17 as stated: when the websocket handle is null, send raises
\* NotConnectedError to its caller, writes nothing to any connection and
\* changes no state of the client; when the handle is not null the guarded
\* function is called, and what the caller gets is its outcome.
C17_SendGuarded ==
    [][last'.op = "send" =>
          IF websocket = None
          THEN /\ last'.out = <<"raised", "NotConnectedError">>
               /\ sent' = sent
               /\ ClientState' = ClientState
               /\ called' = called
          ELSE last'.out[2] # "NotConnectedError"]_vars

\* C18 as stated: in every state in which no on_open has fired for the current
\* connection, send fails with NotConnectedError; send writes to the
\* connection only between an on_open and the following on_close.
C18_SendOnlyWhenOpen ==
    [][last'.op = "send" =>
          /\ phase # "open" => last'.out = <<"raised", "NotConnectedError">>
          /\ sent' # sent => phase = "open"]_vars

\* The frame of a type with data, and of a type alone.
Frame(message_type, data) ==
    IF data = PyNone THEN "{\"type\": \"" \o message_type \o "\"}"
    ELSE "{\"type\": \"" \o message_type \o "\", \"data\": \"" \o data \o "\"}"

\* C19 as stated: with a live connection, send(type, data) writes exactly one
\* frame: the JSON object with the type field, plus the data field set to data
\* if and only if the caller supplied data.
C19_DataIffSupplied ==
    [][(last'.op = "send" /\ phase = "open" /\ sock = "live") =>
          /\ Len(sent') = Len(sent) + 1
          /\ SubSeq(sent', 1, Len(sent)) = sent
          /\ sent'[Len(sent')] = Frame(last'.arg[1], last'.arg[2])]_vars


\* C21 as stated: abort terminates the socket exactly when the websocket
\* handle is not null and its socket has the abort method; otherwise it does
\* nothing besides clearing retry; in every case it raises nothing and leaves
\* the websocket handle and the timer as they were.
C21_AbortTerminatesSocket ==
    [][/\ last'.op \in AbortOps =>
             /\ last'.out = <<>>
             /\ websocket' = websocket
             /\ timer' = timer
             /\ timers' = timers
             /\ phase' = phase
             /\ errors' = errors
             /\ log' = log
             /\ sent' = sent
             /\ stop' = stop
       /\ last'.op \in {"abort_retry", "abort_test", "abort_hasattr"} => sock' = sock
       /\ last'.op = "abort_test" =>
             abort_pc' = (IF websocket # None THEN "hasattr" ELSE "out")
       /\ last'.op = "abort_hasattr" =>
             abort_pc' = (IF websocket # None /\ sock # "none" THEN "call" ELSE "out")
       /\ last'.op = "abort_call" => sock' = "aborted"]_vars

\* C29: on_open sets retry to false whatever its previous value and calls the
\* on_connected hook exactly once; it leaves the websocket handle and the
\* timer as they were.
C29_OpenClearsRetry ==
    [][last'.op = "on_open" =>
          /\ ~retry'
          /\ called'["on_connected"] = called["on_connected"] + 1
          /\ called'["on_connection_lost"] = called["on_connection_lost"]
          /\ websocket' = websocket
          /\ timer' = timer
          /\ timers' = timers]_vars

\* on_open found retry true, on a connection made after a loss.
C29_Witness ==
    /\ last.op = "on_open"
    /\ last.retry
    /\ ~retry
    /\ nconn = 2
    /\ called["on_connected"] >= 1


\* C22 as stated: once abort has been called on a client, the on_close it
\* triggers performs no reconnection, no timer is scheduled and no run is
\* started for that client afterwards.
C22_AbortedIsTerminal ==
    [][aborted => (Len(timers') = Len(timers) /\ nconn' = nconn)]_vars

\* C22: once the Stop Signal is set and abort has been called on a client, an
\* on_close that reaches its test of the Stop Signal returns without
\* reconnection (retry and the timer are left as they were, on_connection_lost
\* is not called) and no run is started for that client afterwards; a timer is
\* started afterwards only by an on_close that had passed its test before.
C22_StoppedAbortedIsTerminal ==
    [][(stop /\ aborted) =>
          /\ nconn' = nconn
          /\ websocket' \in {websocket, None}
          /\ last'.op = "on_close_stop" =>
                /\ close_pc' = "out"
                /\ retry' = retry
                /\ timers' = timers
                /\ timer' = timer
                /\ called'["on_connection_lost"] = called["on_connection_lost"]
          /\ Len(timers') > Len(timers) =>
                (last'.op = "on_close_timer" /\ close_pc = "timer")]_vars

\* The Stop Signal was set, abort terminated the socket of a connection and
\* the on_close that followed returned at its test, with no timer to fire.
C22_Witness ==
    /\ aborted
    /\ stop
    /\ sock = "none"
    /\ last.op = "on_close_stop"
    /\ last.stop
    /\ ~last.retry
    /\ close_pc = "out"
    /\ websocket = None
    /\ Alive = {}


\* The shutdown is over: the Stop Signal was set, abort was called, on_error
\* and on_close have run.
ShutdownDone == stop /\ aborted /\ nevents = 1 /\ phase = "idle" /\ close_pc = "out"

\* C23: for a deliberate shutdown of a connected client (Stop Signal set, then
\* abort, then on_error(WebSocketConnectionClosedException) and on_close in
\* either order), the error queue stays empty, exactly one informational
\* disconnect record is logged, on_error logs nothing, no timer is scheduled,
\* and the client ends with a null websocket handle and retry false.
C23_ShutdownConverges ==
    ShutdownDone =>
        /\ errors = <<>>
        /\ Count(log, "INFO", "Websocket disconnected from server", <<>>) = 1
        /\ Count(log, "ERROR", "Websocket: %s", <<"WebSocketConnectionClosedException">>) = 0
        /\ Alive = {}
        /\ Len(timers) = nconn
        /\ websocket = None
        /\ ~retry

\* The shutdown ended with on_error coming after on_close, on the second
\* connection of the client.
C23_Witness ==
    /\ ShutdownDone
    /\ last.op = "on_error_stop"
    /\ last.websocket = None
    /\ nconn = 2


\* The client is closed and at rest: no connection object, no timer that is
\* started and has not fired, no run blocked on a connection.
Quiescent == websocket = None /\ Alive = {} /\ phase = "idle"

\* C24 as stated: after abort has been called with the Stop Signal set, the
\* client eventually reaches and stays in a quiescent closed state, from every
\* reachable state, connecting and reconnection pending included.
C24_EventuallyClosed ==
    (last.op \in AbortOps /\ abort_pc = "out" /\ last.stop) ~> []Quiescent


\* C25: if the Stop Signal is never set, every unexpected end of a connection
\* (on_close) is eventually followed by a new run that creates a fresh
\* connection object, with no step of the supervisor: the timer that on_close
\* started fires and calls run. Stated for the connections short of the bound
\* MaxRuns, and up to the moment the Stop Signal is set.
C25_CloseLeadsToRun ==
    \A n \in 1..(MaxRuns - 1) :
        (last.op = "on_close_stop" /\ ~last.stop /\ nconn = n) ~> (nconn > n \/ stop)

\* The timer started by an on_close fired with the Stop Signal unset and run
\* stored a second connection object.
C25_Witness ==
    /\ last.op = "fire"
    /\ last.arg = <<timer>>
    /\ timer > 1
    /\ ~stop
    /\ nconn = 2
    /\ websocket = 2
    /\ phase = "connecting"


\* C26 as stated: a new run starts only after on_close of the previous
\* connection has fully completed, so that at most one run loop is active per
\* client at any time.
C26_OneRunLoop ==
    [][nconn' > nconn => (phase = "idle" /\ RunLoops = 0)]_vars

\* C26: callbacks of successive connections never overlap: a new run is
\* started only by a timer, once on_close of the previous connection has
\* nulled the handle and started that timer as its last statement; at most one
\* call of run at a time is inside run_forever with a connection, the other
\* calls of run that have not returned are past their on_close.
C26_CallbacksNeverOverlap ==
    [][nconn' > nconn =>
          /\ phase = "idle"
          /\ close_pc = "out"
          /\ websocket = None
          /\ sock = "none"
          /\ last'.op = "fire"
          /\ RunLoops' = RunLoops + 1]_vars

\* A second run is connecting while the first call of run, past its on_close,
\* has not returned.
C26_Witness ==
    /\ nconn = 2
    /\ returned = 0
    /\ RunLoops = 2
    /\ phase = "connecting"
    /\ websocket = 2


\* C27 as stated: abort is safe under every interleaving with the receive
\* loop: when abort runs on another thread while on_close nulls the websocket
\* handle or run replaces it, abort never dereferences a null handle and never
\* raises.
C27_AbortNeverRaises ==
    last.op \in AbortOps => last.out # <<"raised", "AttributeError">>


\* The text of the address of a configuration.
AddressText(cfg) == Str(cfg.address)

\* C28 as stated: construction derives server_url once: a configuration with
\* url yields that url with the route appended; a configuration with address
\* (host, or host:port) and no url yields scheme ws when ssl is absent or
\* false and wss when ssl is true, with the host, the port and the route; a
\* configuration with neither url nor address nor host fails construction
\* with a ParameterError and creates no client.
C28_ServerUrl ==
    [][last'.op = "init_worker" =>
          LET route == last'.arg[1]
              path == IF route = "" THEN "" ELSE "/" \o route
              scheme == IF config.ssl = "True" THEN "wss" ELSE "ws"
          IN /\ config.url # Missing =>
                    last'.out = <<"returned", config.url \o path>>
             /\ (config.url = Missing /\ config.host = Missing
                    /\ config.address # <<>>) =>
                    last'.out = <<"returned", scheme \o "://" \o AddressText(config) \o path>>
             /\ (config.url = Missing /\ config.host = Missing
                    /\ config.address = <<>>) =>
                    /\ last'.out[1] = "raised"
                    /\ IsInstance(last'.out[2], "ParameterError")
                    /\ phase' = "failed"
                    /\ timers' = <<>>]_vars


\* C30 as stated: display_message(message, limit) returns the message
\* unchanged when its length is at most limit, and otherwise a text that ends
\* with "..." and whose length is at most limit, for every message and every
\* limit.
C30_DisplayWithinLimit ==
    [][last'.op = "display_message" =>
          LET message == last'.arg[1]
              limit == last'.arg[2]
              shown == last'.out
          IN IF Len(message) <= limit THEN shown = message
             ELSE /\ Len(shown) <= limit
                  /\ Len(shown) >= 3
                  /\ SubSeq(shown, Len(shown) - 2, Len(shown)) = <<".", ".", ".">>]_vars


\* The records of a connection lost, at error level.
LostRecords(l) == Count(l, "ERROR", "Websocket connection lost", <<>>)

\* The records of a reconnection to come, at warning level.
ReconnectRecords(l) ==
    Count(l, "WARNING", "Trying to reconnect in %i s", <<reconnect_interval>>)

\* C32 as stated: on an on_close with the Stop Signal unset the loss is logged
\* at error level exactly when retry was false, so that between two on_open
\* (or before the first) the record at error level is logged at most once,
\* further closes logging the warning only.
C32_LostOncePerCycle ==
    [][/\ last'.op = "on_close_lost" =>
             LostRecords(log') = LostRecords(log) + (IF retry THEN 0 ELSE 1)
       /\ last'.op = "on_close_timer" =>
             ReconnectRecords(log') = ReconnectRecords(log) + 1
       /\ LostRecords(log') <= called["on_connected"] + 1]_vars

\* C32: an on_close that found the Stop Signal unset logs the loss at error
\* level exactly when retry is false at the moment on_close tests it, and the
\* warning of the reconnection once; no other statement logs either record; as
\* long as abort has not been called, the record at error level is logged at
\* most once between two on_open (or before the first).
C32_LostWhenRetryFalse ==
    [][/\ last'.op = "on_close_lost" =>
             LostRecords(log') = LostRecords(log) + (IF retry THEN 0 ELSE 1)
       /\ last'.op = "on_close_timer" =>
             ReconnectRecords(log') = ReconnectRecords(log) + 1
       /\ LostRecords(log') # LostRecords(log) => last'.op = "on_close_lost"
       /\ ReconnectRecords(log') # ReconnectRecords(log) => last'.op = "on_close_timer"
       /\ (~aborted /\ abort_pc = "out") =>
             LostRecords(log') <= called["on_connected"] + 1]_vars

\* A second close in a row, with no on_open and no abort in between, logged
\* the warning only.
C32_Witness ==
    /\ last.op = "on_close_timer"
    /\ retry
    /\ ~stop
    /\ ~aborted
    /\ abort_pc = "out"
    /\ nconn = 2
    /\ called["on_connected"] = 0
    /\ LostRecords(log) = 1
    /\ ReconnectRecords(log) = 2


\* C35: on_error and on_message never change the state of the connection:
\* whatever the error, the payload and the state, they leave the websocket
\* handle, retry and the timer as they were; so retry becomes true only in an
\* on_close that found the Stop Signal unset at its test, and false only in
\* on_open and abort.
C35_EventsKeepConnectionState ==
    [][/\ last'.op \in {"on_error_stop", "on_error_class", "on_message"} =>
             /\ websocket' = websocket
             /\ retry' = retry
             /\ timer' = timer
             /\ timers' = timers
             /\ phase' = phase
             /\ sock' = sock
       /\ (~retry /\ retry') => (last'.op = "on_close_retry" /\ close_pc = "retry")
       /\ (last'.op = "on_close_stop" /\ stop) => (close_pc' = "out" /\ retry' = retry)
       /\ (close_pc # "lost" /\ close_pc' = "lost") =>
             (last'.op = "on_close_stop" /\ ~stop)
       /\ (retry /\ ~retry') => last'.op \in {"on_open", "abort_retry"}]_vars

\* on_error received a refused connection during a retry cycle, with a
\* connection object in place, and left retry true.
C35_Witness ==
    /\ last.op = "on_error_class"
    /\ last.arg = "ConnectionRefusedError"
    /\ last.retry
    /\ retry
    /\ websocket = 2
    /\ last.websocket = 2
    /\ Alive = {}

\* C39 as stated: whenever a reconnection timer started by on_close is pending
\* and no run has started since, the websocket handle is null; and at the
\* instant on_close starts that timer, retry is true.
C39_PendingTimerNullHandle ==
    [][/\ (Alive' # {} /\ timer' > 1) => (websocket' = None /\ phase' = "idle")
       /\ Len(timers') > Len(timers) =>
             /\ last'.op = "on_close_timer"
             /\ retry'
             /\ timers'[Len(timers')].state = "started"
             /\ websocket' = None]_vars


\* The callback of a connection object that calls this method of the client
\* with these of the arguments the library gives.
Callback(method, args) == [method |-> method, args |-> args]

\* C33: every call of run starts with a null websocket handle, the previous
\* connection object having been nulled by its on_close; it stores a fresh
\* connection object made for server_url and header, whose four callbacks
\* call on_open(), on_close(code, reason), on_message(message) and
\* on_error(error), so that each event of the library reaches the method of
\* its name; and it blocks until that connection terminates: a run returns
\* only when it is not the one whose connection is in progress.
C33_RunStoresFreshConnection ==
    [][/\ nconn' > nconn =>
             /\ last'.op = "fire"
             /\ websocket = None
             /\ phase = "idle"
             /\ websocket' = nconn'
             /\ websocket' \notin 1..nconn
             /\ Len(apps') = nconn'
             /\ SubSeq(apps', 1, nconn) = apps
             /\ apps'[websocket'].url = server_url
             /\ apps'[websocket'].url = create_url(config.url, <<>>, "", <<>>, "",
                                                   FALSE, "ws", "wss").value
             /\ apps'[websocket'].header = header
             /\ apps'[websocket'].on_open = Callback("on_open", <<>>)
             /\ apps'[websocket'].on_close = Callback("on_close", <<"code", "reason">>)
             /\ apps'[websocket'].on_message = Callback("on_message", <<"message">>)
             /\ apps'[websocket'].on_error = Callback("on_error", <<"error">>)
             /\ phase' = "connecting"
             /\ sock' = "none"
       /\ apps' # apps => nconn' > nconn
       /\ <<server_url, header>>' = <<server_url, header>>
       /\ last'.op = "on_open" => apps[nconn].on_open.method = "on_open"
       /\ last'.op = "on_close_null" => apps[nconn].on_close.method = "on_close"
       /\ last'.op = "on_message" => apps[nconn].on_message.method = "on_message"
       /\ last'.op = "on_error_stop" => apps[nconn].on_error.method = "on_error"
       /\ returned' > returned =>
             /\ last'.op = "run_returns"
             /\ returned' <= nconn
             /\ (phase # "idle" \/ close_pc # "out") => returned' < nconn
             /\ websocket' = websocket]_vars

\* The second run was called by the timer of on_close, after the first run
\* returned and its connection had received an event: it found a null handle
\* and stored the second connection object, made for the URL of the server.
C33_Witness ==
    /\ last.op = "fire"
    /\ last.websocket = None
    /\ last.retry
    /\ nconn = 2
    /\ nevents = 1
    /\ returned = 1
    /\ websocket = 2
    /\ phase = "connecting"
    /\ apps[2].url = ServerUrl
    /\ apps[2].on_message = Callback("on_message", <<"message">>)


\* C34 as stated: when an event has a type with a handler and no data field,
\* on_message calls the handler with no argument.
C34_NoDataNoArgument ==
    [][(/\ last'.op = "on_message"
        /\ MessageHandled(last'.arg)
        /\ "data" \notin DOMAIN last'.arg.members) =>
             last'.out = <<MethodName(last'.arg)>>]_vars

\* C34: when an event has a type with a handler and no data field, on_message
\* calls the handler with one argument, None.
C34_NoDataNoneArgument ==
    [][(/\ last'.op = "on_message"
        /\ MessageHandled(last'.arg)
        /\ "data" \notin DOMAIN last'.arg.members) =>
             /\ last'.out = <<MethodName(last'.arg), PyNone>>
             /\ called' = [called EXCEPT !["receive"] = @ + 1]]_vars

\* An event of type dummy without data was handed to receive_dummy.
C34_Witness ==
    /\ last.op = "on_message"
    /\ last.arg = [json |-> TRUE, object |-> TRUE, members |-> [type |-> "dummy"]]
    /\ last.out = <<"receive_dummy", PyNone>>
    /\ called["receive"] = 1


\* C37: no operation of the client (run, on_open, on_close, on_message,
\* on_error, send, abort, exit_worker) sets or clears the Stop Signal: its
\* value changes only when its owner sets it.
C37_ClientOnlyReadsStop ==
    [][/\ stop' # stop => last'.op = "set_stop"
       /\ last'.op \in {"fire", "connect", "on_open", "on_close_null",
                        "on_close_stop", "on_close_lost", "on_close_retry",
                        "on_close_hook", "on_close_timer", "on_message",
                        "on_error_stop", "on_error_class", "send_connected", "send_read",
                        "send",
                        "abort_retry", "abort_test", "abort_hasattr", "abort_call",
                        "exit_worker"} =>
             stop' = stop]_vars

\* An exception left a handler of on_message and was captured while the Stop
\* Signal stayed unset.
C37_Witness ==
    /\ last.op = "on_message"
    /\ MessageHandled(last.arg)
    /\ "receive" \in raising
    /\ Len(errors) = 1
    /\ ~last.stop
    /\ ~stop


\* C38: the round trip of a frame: for every type with a handler and every
\* data supplied, the values Python takes for false included, when the frame
\* that send(type, data) wrote is given to on_message, receive_<type> is called
\* with a value equal to the data.
C38_RoundTrip ==
    [][(/\ last.op = "send"
        /\ last.out[1] = "returned"
        /\ last.arg[1] \in HandledTypes
        /\ last.arg[2] # PyNone
        /\ last'.op = "on_message"
        /\ last'.arg = JsonLoads(sent[Len(sent)])) =>
             last'.out = <<"receive_" \o last.arg[1], last.arg[2]>>]_vars


\* C36: send is safe whatever on_close does beside it: when on_close nulls the
\* websocket handle between the check of send and its write, send still raises
\* NotConnectedError or writes to a connection object, and never dereferences
\* a null handle.
C36_SendNeverDereferencesNull ==
    [][last'.op = "send" =>
          /\ last'.out # <<"raised", "AttributeError">>
          /\ \/ last'.out = <<"raised", "NotConnectedError">>
             \/ websocket # None]_vars


\* C31: handle_all_exceptions yields a container whose exit value ends as 0
\* when the body raises nothing, 255 on KeyboardInterrupt, 1 on a DakaraError
\* and 2 on any other exception; without debug nothing leaves the with
\* statement, with debug the DakaraError or the other exception is raised
\* again after the value is set, and KeyboardInterrupt never is.
C31_ExitValues ==
    last.op = "handle_all_exceptions" =>
        LET debug == last.arg[2]
            class == last.arg[3].class
            value == last.out[1]
            reraised == last.out[2]
            known == class \in {"DakaraError", "NotConnectedError", "ParameterError"}
        IN  /\ class = NoError => (value = 0 /\ reraised = NoError)
            /\ class = "KeyboardInterrupt" => (value = 255 /\ reraised = NoError)
            /\ known => value = 1
            /\ class \in {"Exception", "ValueError", "SystemExit"} => value = 2
            /\ ~debug => reraised = NoError
            /\ (debug /\ class \notin {NoError, "KeyboardInterrupt"}) => reraised = class

\* With debug, a ValueError left the body: the exit value is 2, the error is
\* raised again and nothing is logged.
C31_Witness ==
    /\ last.op = "handle_all_exceptions"
    /\ last.arg[2]
    /\ last.arg[3].class = "ValueError"
    /\ last.out = <<2, "ValueError">>
    /\ log = NoLog

====
